---- MODULE Spec2Model ----
(***************************************************************************)
(* Model of ZIP4PAPA/database/query_database.py: query_wallet_database()   *)
(* opens database/wallet_data.db with sqlite3, counts the rows of the      *)
(* wallets table, prints one statistics line per flag field, prints the    *)
(* first 10 rows and 5 random rows, and closes the connection.             *)
(*                                                                         *)
(* The persisted state is the database file (file, schema, table).  The    *)
(* program state is the position in the function (pc), its local           *)
(* variables, the connection, the text printed so far (output, one string  *)
(* per line) and the calls made on the sqlite3 driver so far (calls:        *)
(* "connect", the SQL statements executed, "close").  one_counts keeps     *)
(* every value count_ones has taken and before the persisted state at the  *)
(* start of the run.                                                       *)
(***************************************************************************)
EXTENDS Integers, Sequences, FiniteSets, TLC

VARIABLES file, schema, table, before, pc, conn, error,
          total_count, fieldIdx, count_ones, one_counts, records,
          random_records, row, output, calls

vars == <<file, schema, table, before, pc, conn, error,
          total_count, fieldIdx, count_ones, one_counts, records,
          random_records, row, output, calls>>

(***************************************************************************)
(* Bounds of the model.                                                    *)
(***************************************************************************)
\* Short tables hold every sequence of at most MaxRows catalogue rows.
MaxRows == 3
\* A table longer than LIMIT 5 and shorter than LIMIT 10.
MidLen == 6
\* A table longer than both LIMIT clauses.
LongLen == 11

(***************************************************************************)
(* SQLite values: integers, text and NULL.                                 *)
(***************************************************************************)
IntV(n) == [t |-> "int", i |-> n, s |-> ""]
TextV(x) == [t |-> "text", i |-> 0, s |-> x]
Null == [t |-> "null", i |-> 0, s |-> ""]

Min(a, b) == IF a < b THEN a ELSE b
Max(a, b) == IF a > b THEN a ELSE b

\* The field list with two fields exchanged.
fieldsReordered == <<"rebalance", "open_position", "open_order", "new_balance", "check_balance">>

\* fields = ['rebalance', 'open_order', ...] on line 16.
fields == <<"rebalance", "open_order", "open_position", "new_balance", "check_balance">>

\* The columns of the wallets table the program expects (spec section 6;
\* read positionally as record[0] .. record[5] on lines 35 and 46).
Columns == <<"wallet_name">> \o fields

\* LIMIT 10 on line 32 and LIMIT 5 on line 43.
FirstLimit == 10
RandomLimit == 5

MkRow(n, a, b, c, d, e) ==
    [wallet_name |-> n, rebalance |-> a, open_order |-> b, open_position |-> c,
     new_balance |-> d, check_balance |-> e]

\* Row contents the tables are built from: a well-formed row, a row with a
\* long name and flag values that are not 0 or 1, and a row with a NULL flag.
RowCatalogue ==
    << MkRow(TextV("w1"), IntV(1), IntV(0), IntV(1), IntV(0), IntV(1)),
       MkRow(TextV("wallet_number_12"), IntV(1234567890), IntV(2), IntV(1), IntV(1), IntV(0)),
       MkRow(TextV("w3"), IntV(1), IntV(1), IntV(0), Null, IntV(1)),
       MkRow(TextV("w4"), IntV(0), IntV(1), IntV(1), IntV(0), IntV(0)) >>

ShortTables ==
    UNION { [1..n -> {RowCatalogue[k] : k \in 1..Len(RowCatalogue)}] : n \in 0..MaxRows }

\* Tables without NULLs, alternating the first and last catalogue row.
Alternating(n) == [i \in 1..n |-> IF i % 2 = 1 THEN RowCatalogue[1] ELSE RowCatalogue[4]]

MidTable == Alternating(MidLen)

\* The long table ends with the row that holds a NULL: only the random
\* sample can fetch it.
LongTable == [i \in 1..LongLen |-> IF i = LongLen THEN RowCatalogue[3] ELSE Alternating(LongLen)[i]]

\* The scenario of spec section 8: 4 rows, rebalance = 1 for 2 of them.
ScenarioTable == RowCatalogue

Tables == ShortTables \cup {ScenarioTable, MidTable, LongTable}

\* Remove the column at position k.
DropCol(k) == [i \in 1..(Len(Columns) - 1) |-> IF i < k THEN Columns[i] ELSE Columns[i + 1]]

\* Schemas of the wallets table: the expected one, and one with a column missing.
Schemas == {Columns} \cup {DropCol(k) : k \in 1..Len(Columns)}

(***************************************************************************)
(* Text formatting, as Python's format specifications do it.               *)
(***************************************************************************)
RECURSIVE Repeat(_, _)
\* "-" * 40: n copies of the string c.
Repeat(c, n) == IF n <= 0 THEN "" ELSE c \o Repeat(c, n - 1)

\* f"{s:w}" for a str: left-aligned, padded to at least w, never truncated.
FormatStr(s, w) == s \o Repeat(" ", w - Len(s))

\* f"{n:w}" for an int: right-aligned, padded to at least w, never truncated.
FormatInt(n, w) == Repeat(" ", w - Len(ToString(n))) \o ToString(n)

\* f"{v:w}" for a value fetched from SQLite (None is rejected by CanFormat).
FormatValue(v, w) == IF v.t = "text" THEN FormatStr(v.s, w) ELSE FormatInt(v.i, w)

\* None.__format__ with a non-empty format specification raises TypeError.
CanFormat(v) == v.t # "null"

\* A guarded division: an empty table gives 0 percent instead of raising.
GuardedPercentage(k, n) ==
    IF n = 0 THEN [error |-> "none", num |-> 0, den |-> 1]
    ELSE [error |-> "none", num |-> k * 100, den |-> n]

\* (count_ones / total_count) * 100 on line 23, as the exact fraction
\* num/den; a zero total raises ZeroDivisionError.
Percentage(k, n) ==
    IF n = 0 THEN [error |-> "ZeroDivisionError", num |-> 0, den |-> 1]
    ELSE [error |-> "none", num |-> k * 100, den |-> n]

\* Truncation to one decimal instead of rounding.
TruncTenths(num, den) == (num * 10) \div den

\* The number of tenths ".1f" prints for the fraction num/den >= 0: the nearest
\* tenth, a tie going to the even digit (the value is converted exactly).
RoundTenths(num, den) ==
    LET q == (num * 10) \div den
        r == (num * 10) % den
    IN  IF 2 * r > den THEN q + 1
        ELSE IF 2 * r = den /\ q % 2 = 1 THEN q + 1
        ELSE q

\* The text of a number of tenths: 505 is "50.5".
TenthsText(p) == ToString(p \div 10) \o "." \o ToString(p % 10)

\* f"{percentage:5.1f}": one decimal, right-aligned in at least 5 characters.
FormatPercentage(num, den) ==
    LET txt == TenthsText(RoundTenths(num, den))
    IN  Repeat(" ", 5 - Len(txt)) \o txt

\* The statistics line printed on line 24.
StatLine(field, k, pct) ==
    FormatStr(field, 15) \o ": " \o FormatInt(k, 3) \o " records ("
        \o FormatPercentage(pct.num, pct.den) \o "%)"

\* The widths of the six sample columns on lines 35 and 46.
Widths == <<11, 9, 10, 13, 11, 12>>

\* The sample line printed on lines 35 and 46 for a fetched record.
RowLine(rec) ==
    FormatValue(rec[1], Widths[1]) \o " | " \o FormatValue(rec[2], Widths[2]) \o " | "
        \o FormatValue(rec[3], Widths[3]) \o " | " \o FormatValue(rec[4], Widths[4]) \o " | "
        \o FormatValue(rec[5], Widths[5]) \o " | " \o FormatValue(rec[6], Widths[6])

\* What evaluating the f-string of lines 35 and 46 raises: the fields are
\* formatted left to right, a missing index raises IndexError and a None
\* TypeError.
RowError(rec) ==
    LET bad == {i \in 1..Len(Columns) : i > Len(rec) \/ ~CanFormat(rec[i])}
        first == CHOOSE i \in bad : \A j \in bad : i <= j
    IN  IF bad = {} THEN "none"
        ELSE IF first > Len(rec) THEN "IndexError" ELSE "TypeError"

\* The column header printed on lines 29 and 40.
ColumnHeader == "wallet_name | rebalance | open_order | open_position | new_balance | check_balance"

\* The lines printed by lines 27-30 and by lines 38-41.
SampleHeader(title) == <<"", title, Repeat("-", 80), ColumnHeader, Repeat("-", 80)>>

(***************************************************************************)
(* The SQL statements and what SQLite answers.                             *)
(***************************************************************************)
CountSql == "SELECT COUNT(*) FROM wallets"

FieldSql(field) == "SELECT COUNT(*) FROM wallets WHERE " \o field \o " = 1"

FirstSql == "SELECT * FROM wallets LIMIT 10"

RandomSql == "SELECT * FROM wallets ORDER BY RANDOM() LIMIT 5"

HasColumn(c) == \E i \in 1..Len(schema) : schema[i] = c

\* A driver that answers every statement, whatever the file holds.
NoSqlError(cols) == "none"

\* What cursor.execute raises for a statement on wallets that names the
\* columns cols: the file is read at the first statement, not by connect.
SqlError(cols) ==
    IF file = "notadb" THEN "DatabaseError"
    ELSE IF schema = <<>> THEN "OperationalError"
    ELSE IF \E c \in cols : ~HasColumn(c) THEN "OperationalError"
    ELSE "none"

\* SELECT COUNT(DISTINCT wallet_name) FROM wallets.
DistinctNames(t) == Cardinality({t[i].wallet_name : i \in 1..Len(t)})

\* SELECT COUNT(*) FROM wallets.
TotalCount(t) == Len(t)

\* SELECT COUNT(*) FROM wallets WHERE field = 1: the rows whose field is the
\* integer 1 (NULL = 1 is not true).
CountOnes(t, field) ==
    Cardinality({i \in 1..Len(t) : t[i][field].t = "int" /\ t[i][field].i = 1})

\* SELECT *: the values of a row for the columns of the schema, in order.
SelectStar(r) == [i \in 1..Len(schema) |-> r[schema[i]]]

\* SELECT * FROM wallets LIMIT 10: the first rows in storage order.
FirstRows(t) == [i \in 1..Min(FirstLimit, Len(t)) |-> SelectStar(t[i])]

\* Five independent random draws: a row may be drawn twice.
RandomDraws(n) == [1..Min(RandomLimit, n) -> 1..n]

\* ORDER BY RANDOM() LIMIT 5 sorts all n rows by a random key and keeps the
\* first 5: any sequence of Min(5, n) distinct row positions.
RandomOrders(n) ==
    {s \in [1..Min(RandomLimit, n) -> 1..n] :
        \A i, j \in DOMAIN s : i # j => s[i] # s[j]}

(***************************************************************************)
(* The state before the run.                                               *)
(***************************************************************************)
\* The database file: it cannot be opened (no directory, no permission), it
\* is missing from an existing directory, it is not a database, or it is a
\* database, with or without (schema = <<>>) the wallets table.
Init ==
    /\ \/ file \in {"unopenable", "missing", "notadb"} /\ schema = <<>> /\ table = <<>>
       \/ file = "db" /\ schema = <<>> /\ table = <<>>
       \/ file = "db" /\ schema \in Schemas /\ table \in Tables
    /\ before = [file |-> file, schema |-> schema, table |-> table]
    /\ pc = "connect"
    /\ conn = "none"
    /\ error = "none"
    /\ total_count = 0
    /\ fieldIdx = 0
    /\ count_ones = 0
    /\ one_counts = <<>>
    /\ records = <<>>
    /\ random_records = <<>>
    /\ row = 0
    /\ output = <<>>
    /\ calls = <<>>

(***************************************************************************)
(* The steps of query_wallet_database().                                   *)
(***************************************************************************)
\* An exception that leaves the function through a handler closing the
\* connection.
RaiseAndClose(kind) ==
    /\ pc' = "failed"
    /\ error' = kind
    /\ conn' = "closed"

\* An exception nothing catches: the function is left at once, conn.close()
\* on line 48 is not reached.
Raise(kind) ==
    /\ pc' = "failed"
    /\ error' = kind
    /\ UNCHANGED conn

\* Lines 7-8: sqlite3.connect creates the file when it is missing.
Connect ==
    /\ pc = "connect"
    /\ calls' = Append(calls, "connect")
    /\ IF file = "unopenable"
       THEN /\ Raise("OperationalError")
            /\ UNCHANGED file
       ELSE /\ conn' = "open"
            /\ file' = IF file = "missing" THEN "db" ELSE file
            /\ pc' = "count"
            /\ UNCHANGED error
    /\ UNCHANGED <<schema, table, before, total_count, fieldIdx, count_ones,
                   one_counts, records, random_records, row, output>>

\* Lines 11-13.
CountTotal ==
    /\ pc = "count"
    /\ calls' = Append(calls, CountSql)
    /\ IF SqlError({}) # "none"
       THEN /\ Raise(SqlError({}))
            /\ UNCHANGED <<total_count, output>>
       ELSE /\ total_count' = TotalCount(table)
            /\ output' = Append(output, "Total wallet records: " \o ToString(TotalCount(table)))
            /\ pc' = "stats_header"
            /\ UNCHANGED <<conn, error>>
    /\ UNCHANGED <<file, schema, table, before, fieldIdx, count_ones,
                   one_counts, records, random_records, row>>

\* Lines 16-19.
PrintStatsHeader ==
    /\ pc = "stats_header"
    /\ output' = output \o <<"", "Field Statistics (count of 1s):", Repeat("-", 40)>>
    /\ pc' = "stats"
    /\ UNCHANGED <<file, schema, table, before, conn, error, total_count,
                   fieldIdx, count_ones, one_counts, records, random_records, row, calls>>

\* Lines 20-24, one iteration of the loop over fields.
FieldStat ==
    /\ pc = "stats"
    /\ fieldIdx < Len(fields)
    /\ LET field == fields[fieldIdx + 1]
           k == CountOnes(table, field)
           pct == Percentage(k, total_count)
       IN  /\ calls' = Append(calls, FieldSql(field))
           /\ IF SqlError({field}) # "none"
              THEN /\ Raise(SqlError({field}))
                   /\ UNCHANGED <<count_ones, one_counts, fieldIdx, output>>
              ELSE /\ count_ones' = k
                   /\ one_counts' = Append(one_counts, k)
                   /\ IF pct.error # "none"
                      THEN /\ Raise(pct.error)
                           /\ UNCHANGED <<fieldIdx, output>>
                      ELSE /\ output' = Append(output, StatLine(field, k, pct))
                           /\ fieldIdx' = fieldIdx + 1
                           /\ pc' = "stats"
                           /\ UNCHANGED <<conn, error>>
    /\ UNCHANGED <<file, schema, table, before, total_count, records,
                   random_records, row>>

\* Lines 27-30, after the last field.
PrintSampleHeader ==
    /\ pc = "stats"
    /\ fieldIdx = Len(fields)
    /\ output' = output \o SampleHeader("Sample Records (first 10):")
    /\ pc' = "fetch_first"
    /\ UNCHANGED <<file, schema, table, before, conn, error, total_count,
                   fieldIdx, count_ones, one_counts, records, random_records, row, calls>>

\* Lines 32-33.
FetchFirst ==
    /\ pc = "fetch_first"
    /\ calls' = Append(calls, FirstSql)
    /\ records' = FirstRows(table)
    /\ row' = 0
    /\ pc' = "print_first"
    /\ UNCHANGED <<file, schema, table, before, conn, error, total_count,
                   fieldIdx, count_ones, one_counts, random_records, output>>

\* One iteration of a loop that prints the fetched rows recs.
PrintRow(recs) ==
    /\ row < Len(recs)
    /\ IF RowError(recs[row + 1]) # "none"
       THEN /\ Raise(RowError(recs[row + 1]))
            /\ UNCHANGED <<row, output>>
       ELSE /\ output' = Append(output, RowLine(recs[row + 1]))
            /\ row' = row + 1
            /\ UNCHANGED <<pc, conn, error>>
    /\ UNCHANGED <<file, schema, table, before, total_count, fieldIdx, count_ones,
                   one_counts, records, random_records, calls>>

\* Lines 34-35.
PrintFirstRow ==
    /\ pc = "print_first"
    /\ PrintRow(records)

\* Lines 38-41, after the last of the first rows.
PrintRandomHeader ==
    /\ pc = "print_first"
    /\ row = Len(records)
    /\ output' = output \o SampleHeader("Random Records (5 samples):")
    /\ pc' = "fetch_random"
    /\ UNCHANGED <<file, schema, table, before, conn, error, total_count,
                   fieldIdx, count_ones, one_counts, records, random_records, row, calls>>

\* Lines 43-44.
FetchRandom ==
    /\ pc = "fetch_random"
    /\ calls' = Append(calls, RandomSql)
    /\ \E s \in RandomOrders(Len(table)) :
          random_records' = [i \in DOMAIN s |-> SelectStar(table[s[i]])]
    /\ row' = 0
    /\ pc' = "print_random"
    /\ UNCHANGED <<file, schema, table, before, conn, error, total_count,
                   fieldIdx, count_ones, one_counts, records, output>>

\* Lines 45-46.
PrintRandomRow ==
    /\ pc = "print_random"
    /\ PrintRow(random_records)

\* Line 48, after the last random row.
Close ==
    /\ pc = "print_random"
    /\ row = Len(random_records)
    /\ conn' = "closed"
    /\ calls' = Append(calls, "close")
    /\ pc' = "done"
    /\ UNCHANGED <<file, schema, table, before, error, total_count, fieldIdx,
                   count_ones, one_counts, records, random_records, row, output>>

Next ==
    \/ Connect
    \/ CountTotal
    \/ PrintStatsHeader
    \/ FieldStat
    \/ PrintSampleHeader
    \/ FetchFirst
    \/ PrintFirstRow
    \/ PrintRandomHeader
    \/ FetchRandom
    \/ PrintRandomRow
    \/ Close

Spec == Init /\ [][Next]_vars

(***************************************************************************)
(* Definitions the properties share.                                       *)
(***************************************************************************)
Abs(x) == IF x < 0 THEN -x ELSE x

\* The rows of the table whose field is the integer 1.
Ones(field) == Cardinality({j \in 1..Len(table) : table[j][field] = IntV(1)})

\* How often r occurs in the sequence q.
Occurrences(q, r) == Cardinality({i \in DOMAIN q : q[i] = r})

Called(sql) == \E i \in DOMAIN calls : calls[i] = sql

\* The wallets table is the one of the external interface: it has the six
\* columns, a text name and integer flags in every row.
WellFormed ==
    /\ file = "db"
    /\ schema = <<"wallet_name", "rebalance", "open_order", "open_position",
                  "new_balance", "check_balance">>
    /\ \A j \in 1..Len(table) : \A i \in 1..Len(schema) : table[j][schema[i]].t # "null"

\* The sample rows printed so far, by the number of lines printed.
PrintedFirst == Min(Len(records), Max(0, Len(output) - 14))

PrintedRandom == Min(Len(random_records), Max(0, Len(output) - 19 - Len(records)))

\* Line i of the report of a run on this table that draws random_records.
ReportLine(i) ==
    LET names == <<"rebalance", "open_order", "open_position", "new_balance", "check_balance">>
        m == Min(10, Len(table))
        head == "wallet_name | rebalance | open_order | open_position | new_balance | check_balance"
    IN  IF i = 1 THEN "Total wallet records: " \o ToString(Len(table))
        ELSE IF i = 2 THEN ""
        ELSE IF i = 3 THEN "Field Statistics (count of 1s):"
        ELSE IF i = 4 THEN Repeat("-", 40)
        ELSE IF i <= 9 THEN StatLine(names[i - 4], Ones(names[i - 4]),
                                     [error |-> "none", num |-> 100 * Ones(names[i - 4]),
                                      den |-> Len(table)])
        ELSE IF i = 10 \/ i = 15 + m THEN ""
        ELSE IF i = 11 THEN "Sample Records (first 10):"
        ELSE IF i = 16 + m THEN "Random Records (5 samples):"
        ELSE IF i \in {12, 14, 17 + m, 19 + m} THEN Repeat("-", 80)
        ELSE IF i \in {13, 18 + m} THEN head
        ELSE IF i <= 14 + m THEN RowLine(SelectStar(table[i - 14]))
        ELSE RowLine(random_records[i - 19 - m])

(***************************************************************************)
(* C1.  For a table with N > 0 rows of which K have a flag field equal to  *)
(* 1, the statistics line of that field shows K and K/N*100 rounded to one *)
(* decimal: the tenth printed is a nearest tenth of the exact percentage   *)
(* (N = 4, K = 2 prints 50.0).                                             *)
(***************************************************************************)
PercentageRounded ==
    \A i \in 1..fieldIdx :
        LET N == Len(table)
            K == Ones(fields[i])
            q == (1000 * K) \div N
        IN  N > 0 =>
              \E p \in {q, q + 1} :
                 /\ 2 * Abs(p * N - 1000 * K) <= N
                 /\ output[4 + i] =
                       FormatStr(fields[i], 15) \o ": " \o FormatInt(K, 3) \o " records ("
                          \o Repeat(" ", 5 - Len(TenthsText(p))) \o TenthsText(p) \o "%)"

\* The scenario of the spec (4 rows, rebalance = 1 for 2 of them) is printed.
PercentageRoundedWitness ==
    /\ Len(table) = 4
    /\ Ones("rebalance") = 2
    /\ Ones("open_position") = 3
    /\ fieldIdx >= 3
    /\ output[5] = "rebalance      :   2 records ( 50.0%)"
    /\ output[7] = "open_position  :   3 records ( 75.0%)"

(***************************************************************************)
(* C2.  Whatever the flag values of the rows, every one-count of the       *)
(* statistics step is between 0 and N, and the one-counts sum to at most   *)
(* 5*N, N being the total count read by the count step of the run.         *)
(***************************************************************************)
RECURSIVE SumSeq(_)
SumSeq(q) == IF q = <<>> THEN 0 ELSE Head(q) + SumSeq(Tail(q))

OneCountsBounded ==
    /\ \A i \in 1..Len(one_counts) : 0 <= one_counts[i] /\ one_counts[i] <= total_count
    /\ one_counts # <<>> => count_ones = one_counts[Len(one_counts)]
    /\ Len(one_counts) <= 5
    /\ SumSeq(one_counts) <= 5 * total_count

\* All five fields were counted on a table with a flag that is neither 0 nor 1.
OneCountsBoundedWitness ==
    /\ Len(one_counts) = 5
    /\ total_count = 3
    /\ \E j \in 1..Len(table) : table[j].open_order = IntV(2)
    /\ SumSeq(one_counts) > 0

EmptyTableFails ==
    (before.file = "db" /\ HasColumn("rebalance") /\ table = <<>>) =>
        /\ pc \in {"connect", "count", "stats_header", "stats", "failed"}
        /\ fieldIdx = 0
        /\ \A i \in 1..Len(output) :
              output[i] = <<"Total wallet records: 0", "", "Field Statistics (count of 1s):",
                            "----------------------------------------">>[i]
        /\ Len(output) <= 4
        /\ pc = "failed" =>
              /\ error = "ZeroDivisionError"
              /\ Len(output) = 4
              /\ calls = <<"connect", "SELECT COUNT(*) FROM wallets",
                           "SELECT COUNT(*) FROM wallets WHERE rebalance = 1">>
        /\ pc = "stats" => Len(output) = 4

\* The run on an empty table has failed.
EmptyTableFailsWitness ==
    /\ before.file = "db"
    /\ schema = Columns
    /\ table = <<>>
    /\ pc = "failed"
    /\ error = "ZeroDivisionError"

(***************************************************************************)
(* C5.  Every sample row printed has its six fields padded to exactly 11,  *)
(* 9, 10, 13, 11 and 12 characters, whatever the row holds, so that every  *)
(* sample line is 81 characters long.                                      *)
(***************************************************************************)
SampleWidthsExact ==
    LET w == <<11, 9, 10, 13, 11, 12>>
        Exact(rec, line) ==
            /\ \A c \in 1..6 : Len(FormatValue(rec[c], w[c])) = w[c]
            /\ Len(line) = 81
    IN  /\ \A i \in 1..PrintedFirst : Exact(records[i], output[14 + i])
        /\ \A i \in 1..PrintedRandom : Exact(random_records[i], output[19 + Len(records) + i])

(***************************************************************************)
(* C6.  No run creates, changes or destroys persisted state: the database  *)
(* file, the schema and the rows of wallets are at every point of the run  *)
(* what they were before it, also when the file did not exist.             *)
(***************************************************************************)
PersistedStateUnchanged ==
    [file |-> file, schema |-> schema, table |-> table] = before

(***************************************************************************)
(* C7.  As claimed: when the database file cannot be opened, is missing or *)
(* is not a database, the open step itself fails: no statement is          *)
(* executed, nothing is printed and no connection is opened.               *)
(***************************************************************************)
OpenStepFails ==
    before.file \in {"unopenable", "missing", "notadb"} =>
        /\ conn = "none"
        /\ \A i \in DOMAIN calls : calls[i] = "connect"
        /\ output = <<>>

(***************************************************************************)
(* C7, amended.  When the database file cannot be opened, is missing or is *)
(* not a database, the run fails before it prints anything and nothing is  *)
(* retried: a file that cannot be opened fails the open step, with no      *)
(* statement executed; a missing file (created empty by the open step) or  *)
(* a file that is not a database passes the open step and fails the count  *)
(* statement, the only one executed.                                       *)
(***************************************************************************)
BadDatabaseIsFatal ==
    before.file \in {"unopenable", "missing", "notadb"} =>
        /\ output = <<>>
        /\ pc \in {"connect", "count", "failed"}
        /\ pc = "count" => conn = "open" /\ calls = <<"connect">>
        /\ pc = "failed" =>
              IF before.file = "unopenable"
              THEN conn = "none" /\ calls = <<"connect">> /\ error = "OperationalError"
              ELSE /\ conn = "open"
                   /\ calls = <<"connect", "SELECT COUNT(*) FROM wallets">>
                   /\ error = IF before.file = "missing" THEN "OperationalError"
                              ELSE "DatabaseError"

\* The count statement has failed on a file that was missing.
BadDatabaseIsFatalWitness ==
    /\ before.file = "missing"
    /\ pc = "failed"
    /\ Len(calls) = 2
    /\ conn = "open"

(***************************************************************************)
(* C8.  Given a database file with the wallets table of the external       *)
(* interface, with any number of rows, every run ends with the connection  *)
(* closed, exactly once.                                                   *)
(***************************************************************************)
ConnectionReleased ==
    (WellFormed /\ before.file = "db" /\ pc \in {"done", "failed"}) =>
        /\ conn = "closed"
        /\ Occurrences(calls, "close") = 1

(***************************************************************************)
(* C9.  A run that completes has made every call exactly once in the fixed *)
(* order: connect, the count, the five field counts for rebalance,         *)
(* open_order, open_position, new_balance, check_balance, the first-10     *)
(* statement, the random-5 statement, close; and it has printed the whole  *)
(* report, with exactly five statistics lines in that order.               *)
(***************************************************************************)
FixedOrder ==
    pc = "done" =>
        /\ calls = <<"connect",
                     "SELECT COUNT(*) FROM wallets",
                     "SELECT COUNT(*) FROM wallets WHERE rebalance = 1",
                     "SELECT COUNT(*) FROM wallets WHERE open_order = 1",
                     "SELECT COUNT(*) FROM wallets WHERE open_position = 1",
                     "SELECT COUNT(*) FROM wallets WHERE new_balance = 1",
                     "SELECT COUNT(*) FROM wallets WHERE check_balance = 1",
                     "SELECT * FROM wallets LIMIT 10",
                     "SELECT * FROM wallets ORDER BY RANDOM() LIMIT 5",
                     "close">>
        /\ conn = "closed"
        /\ error = "none"
        /\ Len(one_counts) = 5
        /\ Len(output) = 19 + Len(records) + Len(random_records)
        /\ \A i \in 1..Len(output) : output[i] = ReportLine(i)

\* Two runs have completed on tables of different content.
FixedOrderWitness ==
    /\ pc = "done"
    /\ Len(table) = 2
    /\ table[1] # table[2]

(***************************************************************************)
(* C10.  Every failure is fatal at once: a failed run has executed no      *)
(* statement and printed no line after the step that raised, what it has   *)
(* printed is the beginning of the report, it has not closed the           *)
(* connection, and it takes no further step.                               *)
(***************************************************************************)
FailedState ==
    pc = "failed" =>
        LET expected == <<"connect",
                          "SELECT COUNT(*) FROM wallets",
                          "SELECT COUNT(*) FROM wallets WHERE rebalance = 1",
                          "SELECT COUNT(*) FROM wallets WHERE open_order = 1",
                          "SELECT COUNT(*) FROM wallets WHERE open_position = 1",
                          "SELECT COUNT(*) FROM wallets WHERE new_balance = 1",
                          "SELECT COUNT(*) FROM wallets WHERE check_balance = 1",
                          "SELECT * FROM wallets LIMIT 10",
                          "SELECT * FROM wallets ORDER BY RANDOM() LIMIT 5">>
            n == Len(calls)
        IN  /\ error # "none"
            /\ conn # "closed"
            /\ n \in 1..9
            /\ \A i \in 1..n : calls[i] = expected[i]
            /\ \A i \in 1..Len(output) : output[i] = ReportLine(i)
            /\ Len(output) = IF n <= 2 THEN 0
                             ELSE IF n <= 7 THEN 4 + (n - 3)
                             ELSE IF n = 8 THEN 14 + row
                             ELSE 19 + Len(records) + row
            /\ n = 8 => row < Len(records)
            /\ n = 9 => row < Len(random_records)

FailureIsFatal == [](FailedState) /\ [][pc = "failed" => UNCHANGED vars]_vars

\* A run has failed on a NULL while printing the random sample, after it
\* printed at least one random row.
FailureIsFatalWitness ==
    /\ pc = "failed"
    /\ Len(calls) = 9
    /\ error = "TypeError"
    /\ row >= 1

====
